---- MODULE Spec2Model ----
(***************************************************************************)
(* Model of the credential portal's pages.                                 *)
(*                                                                         *)
(*  - StudentDashboard (src/src/pages/StudentDashboard.jsx): the effect    *)
(*    that resolves the signed-in user's profile, fans out one getDoc per  *)
(*    credential id, joins them with Promise.all and stores the non-null   *)
(*    records; its catch block raises one toast.                           *)
(*  - CredentialUpload (src/src/pages/CredentialUpload.jsx): the form, its *)
(*    HTML constraint validation and the timer-delayed handleSubmit.       *)
(*  - Navbar (src/unnamed/part_000): the menu toggle and handleSignOut.    *)
(*                                                                         *)
(* One action is one JavaScript task: an event handler, or the             *)
(* continuation that runs when an awaited promise settles, together with   *)
(* every microtask it triggers (the async mapper's return, Promise.all's   *)
(* settlement, the rest of fetchUserData).                                 *)
(***************************************************************************)
EXTENDS Naturals, Integers, Sequences, FiniteSets, Bags, TLC

VARIABLES
    user,           \* AuthContext user: a uid, or NoUser (null)
    mounted,        \* is a StudentDashboard instance mounted
    inst,           \* number of the current (or last) component instance
    userProfile,    \* useState(null)
    credentials,    \* useState([])
    fetches,        \* one record per run of the effect (per call of fetchUserData)
    step,           \* CredentialUpload: useState(1)
    uploading,      \* CredentialUpload: useState(false)
    preview,        \* CredentialUpload: useState(null)
    typeSel,        \* value of the <select required>
    nameInput,      \* value of the <input type="text" required>
    fileInput,      \* file chosen in <input type="file">, or NoFile
    reading,        \* bag of files: one copy per FileReader that has not called onloadend yet
    timers,         \* number of pending setTimeout(resolve, 2000) of handleSubmit
    submitted,      \* history: the form's fields at each call of handleSubmit
    isMenuOpen,     \* Navbar: useState(false)
    storage,        \* the localStorage keys that are present
    signOuts        \* one record per call of handleSignOut: logout's outcome, the toasts

dashVars == <<user, mounted, inst, userProfile, credentials, fetches>>
upVars == <<step, uploading, preview, typeSel, nameInput, fileInput, reading, timers, submitted>>
navVars == <<isMenuOpen, storage, signOuts>>
vars == <<dashVars, upVars, navVars>>

(***************************************************************************)
(* Bounds                                                                  *)
(***************************************************************************)
\* number of credential lookups issued in one behaviour, over all fetches
MaxLookups == 2
\* number of runs of the dashboard effect in one behaviour
MaxFetches == 2
\* number of submissions of the upload form in one behaviour
MaxSubmits == 2
\* number of sign-outs in one behaviour
MaxSignOuts == 2
\* number of FileReaders that are reading at the same time
MaxReaders == 2

(***************************************************************************)
(* The external stores                                                     *)
(***************************************************************************)
NoUser == "null"
Users == {"u1", "u2"}
CredIds == {"c1", "c2"}

\* The credentials collection: c1 (a degree) and c3 (a certificate) are
\* stored, c2 is not.
Store == [c \in {"c1", "c3"} |-> [type |-> IF c = "c1" THEN "degree" ELSE "certificate"]]

\* null, as a profile and as a mapped lookup value
Null == [null |-> TRUE]

RECURSIVE SeqsUpTo(_, _)
SeqsUpTo(S, n) ==
    IF n = 0 THEN {<<>>}
    ELSE LET shorter == SeqsUpTo(S, n - 1)
         IN  shorter \cup {Append(s, x) : s \in {t \in shorter : Len(t) = n - 1}, x \in S}

\* The credential id lists a stored profile can hold.
Lists == SeqsUpTo(CredIds, MaxLookups)

\* displayName is optional: u1's profile has one, u2's has none.
DisplayName(u) == IF u = "u1" THEN "Ada" ELSE ""

\* Profiles that list two distinct stored credentials and an absent one.
OrderIds == {"c1", "c2", "c3"}
OrderProfilesOf(u) ==
    {[id |-> u, displayName |-> DisplayName(u), credentials |-> l] :
        l \in SeqsUpTo(OrderIds, MaxLookups)}

\* The profile documents getUserProfile(uid) can resolve to: with a
\* credentials array (possibly empty), or with no credentials field at all.
ProfilesOf(u) ==
    {[id |-> u, displayName |-> DisplayName(u), credentials |-> l] : l \in Lists}
    \cup {[id |-> u, displayName |-> DisplayName(u)]}

(***************************************************************************)
(* fetchUserData, piece by piece                                           *)
(***************************************************************************)
\* if (user)
HasUserAlways(u) == TRUE
HasUser(u) == u # NoUser

\* profile?.credentials?.length > 0
HasCredentials(p) ==
    /\ p # Null
    /\ "credentials" \in DOMAIN p
    /\ Len(p.credentials) > 0

CredentialsOf(p) == IF HasCredentials(p) THEN p.credentials ELSE <<>>

Pending == [st |-> "pending"]
Rejected == [st |-> "rejected"]
Fulfilled(v) == [st |-> "fulfilled", val |-> v]

\* credDoc.exists() ? { id: credDoc.id, ...credDoc.data() } : null
MapLookup(c) == IF c \in DOMAIN Store THEN [id |-> c, type |-> Store[c].type] ELSE Null

\* fetchedCredentials.filter(cred => cred !== null)
RECURSIVE FilterNonNull(_)
FilterNonNullKeepsAll(s) == s
FilterNonNull(s) ==
    IF s = <<>> THEN <<>>
    ELSE IF Head(s) = Null THEN FilterNonNull(Tail(s))
         ELSE <<Head(s)>> \o FilterNonNull(Tail(s))

\* Promise.all(credentialPromises): rejected as soon as one input is
\* rejected, fulfilled once every input is fulfilled, pending otherwise.
PromiseAll(res) ==
    IF \E i \in 1..Len(res) : res[i] = Rejected THEN "rejected"
    ELSE IF \A i \in 1..Len(res) : res[i].st = "fulfilled" THEN "fulfilled"
    ELSE "pending"

\* the array Promise.all fulfils with: the inputs' values, in input order
ValuesReversed(res) == [i \in 1..Len(res) |-> res[Len(res) + 1 - i].val]
Values(res) == [i \in 1..Len(res) |-> res[i].val]

\* React applies a state setter only to the instance that created it, and
\* ignores it once that instance is unmounted.
Live(f) == mounted /\ fetches[f].inst = inst

\* catch (error) { console.error(...); toast.error('Failed to load credentials') }
Catch(r) == [r EXCEPT !.pc = "failed", !.toasts = @ + 1]

NewFetch(u, n) ==
    [inst |-> n, uid |-> u, pc |-> "profile", prof |-> "pending",
     list |-> <<>>, res |-> <<>>, setCreds |-> <<>>, toasts |-> 0]

Skipped(u, n) ==
    [inst |-> n, uid |-> u, pc |-> "skipped", prof |-> "none",
     list |-> <<>>, res |-> <<>>, setCreds |-> <<>>, toasts |-> 0]

\* the number of lookups the first n fetches have issued
RECURSIVE Issued(_)
Issued(n) == IF n = 0 THEN 0 ELSE Len(fetches[n].res) + Issued(n - 1)

(***************************************************************************)
(* StudentDashboard: actions                                               *)
(***************************************************************************)
\* The application has started, with a restored session or signed out; the
\* dashboard route has not been visited.
DashInit ==
    /\ user \in Users \cup {NoUser}
    /\ mounted = FALSE
    /\ inst = 0
    /\ userProfile = Null
    /\ credentials = <<>>
    /\ fetches = <<>>

\* useEffect(() => { ...; fetchUserData() }, [user]) for AuthContext user u
\* in instance n: fetchUserData runs up to its first await.
RunEffect(u, n) ==
    fetches' = Append(fetches, IF HasUser(u) THEN NewFetch(u, n) ELSE Skipped(u, n))

\* await getUserProfile(user.uid) resolves with a profile document.
ProfileFound(f, p) ==
    /\ fetches[f].pc = "profile"
    /\ p.id = fetches[f].uid
    /\ Issued(Len(fetches)) + Len(CredentialsOf(p)) <= MaxLookups
    /\ userProfile' = IF Live(f) THEN p ELSE userProfile
    /\ fetches' = [fetches EXCEPT ![f] =
            IF HasCredentials(p)
            THEN [@ EXCEPT !.pc = "lookups", !.prof = "found", !.list = p.credentials,
                           !.res = [i \in 1..Len(p.credentials) |-> Pending]]
            ELSE [@ EXCEPT !.pc = "done", !.prof = "found", !.list = CredentialsOf(p)]]
    /\ UNCHANGED <<user, mounted, inst, credentials, upVars, navVars>>

\* await getUserProfile(user.uid) resolves with null: no such profile.
ProfileNull(f) ==
    /\ fetches[f].pc = "profile"
    /\ userProfile' = IF Live(f) THEN Null ELSE userProfile
    /\ fetches' = [fetches EXCEPT ![f] = [@ EXCEPT !.pc = "done", !.prof = "null"]]
    /\ UNCHANGED <<user, mounted, inst, credentials, upVars, navVars>>

\* await getUserProfile(user.uid) throws: the profile does not exist
\* ("notfound") or the store is unreachable ("transient").
ProfileRejectClears(f, kind) ==
    /\ fetches[f].pc = "profile"
    /\ kind \in {"notfound", "transient"}
    /\ fetches' = [fetches EXCEPT ![f] = Catch([@ EXCEPT !.prof = kind])]
    /\ userProfile' = IF Live(f) THEN Null ELSE userProfile
    /\ credentials' = IF Live(f) THEN <<>> ELSE credentials
    /\ UNCHANGED <<user, mounted, inst, upVars, navVars>>
ProfileReject(f, kind) ==
    /\ fetches[f].pc = "profile"
    /\ kind \in {"notfound", "transient"}
    /\ fetches' = [fetches EXCEPT ![f] = Catch([@ EXCEPT !.prof = kind])]
    /\ UNCHANGED <<user, mounted, inst, userProfile, credentials, upVars, navVars>>

\* The continuation of fetchUserData once lookup i of fetch f has settled
\* to res: nothing if Promise.all is still pending or had settled before.
AfterSettleToastsEach(f, res) ==
    LET r == [fetches[f] EXCEPT !.res = res]
        fetched == FilterNonNull(Values(res))
        rejects == res # fetches[f].res /\ \E i \in 1..Len(res) :
                        res[i] = Rejected /\ fetches[f].res[i] # Rejected
    IN  IF rejects
        THEN /\ fetches' = [fetches EXCEPT ![f] = Catch(r)]
             /\ UNCHANGED credentials
        ELSE IF fetches[f].pc # "lookups" \/ PromiseAll(res) = "pending"
        THEN /\ fetches' = [fetches EXCEPT ![f] = r]
             /\ UNCHANGED credentials
        ELSE /\ fetches' = [fetches EXCEPT ![f] =
                    [r EXCEPT !.pc = "done", !.setCreds = Append(@, fetched)]]
             /\ credentials' = IF Live(f) THEN fetched ELSE credentials
AfterSettle(f, res) ==
    LET r == [fetches[f] EXCEPT !.res = res]
        fetched == FilterNonNull(Values(res))
    IN  IF fetches[f].pc # "lookups" \/ PromiseAll(res) = "pending"
        THEN /\ fetches' = [fetches EXCEPT ![f] = r]
             /\ UNCHANGED credentials
        ELSE IF PromiseAll(res) = "rejected"
        THEN /\ fetches' = [fetches EXCEPT ![f] = Catch(r)]
             /\ UNCHANGED credentials
        ELSE /\ fetches' = [fetches EXCEPT ![f] =
                    [r EXCEPT !.pc = "done", !.setCreds = Append(@, fetched)]]
             /\ credentials' = IF Live(f) THEN fetched ELSE credentials

\* getDoc(doc(db, 'credentials', credId)) resolves; the mapper returns
\* the record or null.
LookupResolve(f, i) ==
    /\ i \in 1..Len(fetches[f].res)
    /\ fetches[f].res[i] = Pending
    /\ AfterSettle(f, [fetches[f].res EXCEPT ![i] = Fulfilled(MapLookup(fetches[f].list[i]))])
    /\ UNCHANGED <<user, mounted, inst, userProfile, upVars, navVars>>

\* getDoc(...) rejects (store fault or timeout); so does the mapper.
LookupReject(f, i) ==
    /\ i \in 1..Len(fetches[f].res)
    /\ fetches[f].res[i] = Pending
    /\ AfterSettle(f, [fetches[f].res EXCEPT ![i] = Rejected])
    /\ UNCHANGED <<user, mounted, inst, userProfile, upVars, navVars>>

\* The AuthContext user changes while the dashboard is mounted (sign-in,
\* sign-out, another account): it re-renders and, [user] having changed, runs its effect.
SetUser(u) ==
    /\ mounted
    /\ u \in Users \cup {NoUser}
    /\ u # user
    /\ Len(fetches) < MaxFetches
    /\ user' = u
    /\ RunEffect(u, inst)
    /\ UNCHANGED <<mounted, inst, userProfile, credentials, upVars, navVars>>

\* The user navigates away: the instance and its state are discarded.
\* The effect returns no cleanup function.
Unmount ==
    /\ mounted
    /\ mounted' = FALSE
    /\ userProfile' = Null
    /\ credentials' = <<>>
    /\ UNCHANGED <<user, inst, fetches, upVars, navVars>>

\* The user navigates to the dashboard: a new instance with the useState
\* initial values renders and runs its effect.
Mount ==
    /\ ~mounted
    /\ Len(fetches) < MaxFetches
    /\ mounted' = TRUE
    /\ inst' = inst + 1
    /\ userProfile' = Null
    /\ credentials' = <<>>
    /\ RunEffect(user, inst + 1)
    /\ UNCHANGED <<user, upVars, navVars>>

\* what the page renders from the state
Greeting ==
    IF userProfile # Null /\ userProfile.displayName # "" THEN userProfile.displayName
    ELSE "Student"
ShowsNoCredentialsFound == ~(Len(credentials) > 0)

(***************************************************************************)
(* CredentialUpload                                                        *)
(***************************************************************************)
\* the <option> values; "" is "Select type"
Types == {"", "degree", "certificate", "diploma"}
Names == {"", "Ada"}
NoFile == "none"
Files == {"diploma.pdf"}

\* reader.result of readAsDataURL(file) once the read has succeeded
DataUrl(file) == [dataUrl |-> file]

\* How a read ends: loadend follows load, or follows error (the file can
\* no longer be read), and then reader.result is null.
ReadOutcomes == {"load", "error"}
ReaderResult(file, outcome) == IF outcome = "load" THEN DataUrl(file) ELSE Null

\* Constraint validation of the form: the <select> and the text <input>
\* carry `required`, the file <input> does not.
FormValid(t, n, file) == t # "" /\ n # ""

UpInit ==
    /\ step = 1
    /\ uploading = FALSE
    /\ preview = Null
    /\ typeSel = ""
    /\ nameInput = ""
    /\ fileInput = NoFile
    /\ reading = EmptyBag
    /\ timers = 0
    /\ submitted = <<>>

\* The user picks an option of the <select> (uncontrolled, no handler).
SelectType(t) ==
    /\ step = 1
    /\ t \in Types
    /\ t # typeSel
    /\ typeSel' = t
    /\ UNCHANGED <<step, uploading, preview, nameInput, fileInput, reading, timers, submitted, dashVars, navVars>>

\* The user edits the Student Name <input> (uncontrolled, no handler).
TypeName(n) ==
    /\ step = 1
    /\ n \in Names
    /\ n # nameInput
    /\ nameInput' = n
    /\ UNCHANGED <<step, uploading, preview, typeSel, fileInput, reading, timers, submitted, dashVars, navVars>>

\* handleFileChange: the user picks a file, or empties the selection
\* (e.target.files[0] undefined: no reader is started, preview is kept).
\* Each pick starts a FileReader of its own, whatever is still being read.
HandleFileChange(file) ==
    /\ step = 1
    /\ file \in Files \cup {NoFile}
    /\ file # fileInput
    /\ file # NoFile => BagCardinality(reading) < MaxReaders
    /\ fileInput' = file
    /\ reading' = IF file # NoFile THEN reading (+) SetToBag({file}) ELSE reading
    /\ UNCHANGED <<step, uploading, preview, typeSel, nameInput, timers, submitted, dashVars, navVars>>

\* reader.onloadend of one of the readers of file: setPreview(reader.result)
ReaderLoadEnd(file, outcome) ==
    /\ BagIn(file, reading)
    /\ outcome \in ReadOutcomes
    /\ reading' = reading (-) SetToBag({file})
    /\ preview' = ReaderResult(file, outcome)
    /\ UNCHANGED <<step, uploading, typeSel, nameInput, fileInput, timers, submitted, dashVars, navVars>>

\* The user activates the submit button (disabled while uploading); the
\* browser validates the form and, if it is valid, fires onSubmit:
\* handleSubmit runs up to its await of the 2000 ms timer.
HandleSubmit ==
    /\ step = 1
    /\ ~uploading
    /\ Len(submitted) < MaxSubmits
    /\ FormValid(typeSel, nameInput, fileInput)
    /\ uploading' = TRUE
    /\ timers' = timers + 1
    /\ submitted' = Append(submitted, [type |-> typeSel, name |-> nameInput, file |-> fileInput])
    /\ UNCHANGED <<step, preview, typeSel, nameInput, fileInput, reading, dashVars, navVars>>

\* The timer fires: handleSubmit resumes after its await.
TimerFiresKeepsStep ==
    /\ timers > 0
    /\ timers' = timers - 1
    /\ uploading' = FALSE
    /\ UNCHANGED <<step, preview, typeSel, nameInput, fileInput, reading, submitted, dashVars, navVars>>
TimerFires ==
    /\ timers > 0
    /\ timers' = timers - 1
    /\ uploading' = FALSE
    /\ step' = 2
    /\ UNCHANGED <<preview, typeSel, nameInput, fileInput, reading, submitted, dashVars, navVars>>

\* "Upload Another": onClick={() => setStep(1)}. The step-1 form is mounted
\* anew, so its uncontrolled inputs are empty; preview is component state.
UploadAnother ==
    /\ step = 2
    /\ step' = 1
    /\ typeSel' = ""
    /\ nameInput' = ""
    /\ fileInput' = NoFile
    /\ UNCHANGED <<uploading, preview, reading, timers, submitted, dashVars, navVars>>

(***************************************************************************)
(* Navbar                                                                  *)
(***************************************************************************)
\* the keys handleSignOut removes
SessionKeys == {"userType", "authSession", "walletConnected"}

NavInit ==
    /\ isMenuOpen = FALSE
    /\ storage = {}
    /\ signOuts = <<>>

\* A sign-in completes elsewhere in the application: the context user is
\* set and the session keys in keys are written.
SignIn(u, keys) ==
    /\ user = NoUser
    /\ ~mounted
    /\ u \in Users
    /\ keys \in SUBSET SessionKeys
    /\ user' = u
    /\ storage' = storage \cup keys
    /\ UNCHANGED <<mounted, inst, userProfile, credentials, fetches, isMenuOpen, signOuts, upVars>>

\* onClick={() => setIsMenuOpen(!isMenuOpen)}, rendered for a signed-in user
ToggleMenu ==
    /\ user # NoUser
    /\ isMenuOpen' = ~isMenuOpen
    /\ UNCHANGED <<storage, signOuts, dashVars, upVars>>

\* The toasts of one call of handleSignOut whose logout(...) ends as outcome:
\* toast.success precedes logout; the catch adds toast.error.
SignOutToasts(outcome) ==
    IF outcome = "throws" THEN <<"success", "error">> ELSE <<"success">>

\* handleSignOut, from the Logout button (fromMenu = FALSE) or from the
\* mobile menu's Logout, which then closes the menu. The function has no
\* await: it runs to its end in the click's task. The button is rendered
\* on every route for a signed-in user; a mounted dashboard re-renders with
\* the null user and runs its effect.
HandleSignOut(fromMenu, outcome) ==
    /\ user # NoUser
    /\ fromMenu => isMenuOpen
    /\ outcome \in {"returns", "throws"}
    /\ Len(signOuts) < MaxSignOuts
    /\ mounted => Len(fetches) < MaxFetches
    /\ user' = NoUser
    /\ storage' = storage \ SessionKeys
    /\ signOuts' = Append(signOuts, [logout |-> outcome, toasts |-> SignOutToasts(outcome)])
    /\ isMenuOpen' = IF fromMenu THEN FALSE ELSE isMenuOpen
    /\ IF mounted THEN RunEffect(NoUser, inst) ELSE UNCHANGED fetches
    /\ UNCHANGED <<mounted, inst, userProfile, credentials, upVars>>

(***************************************************************************)
(* Properties                                                              *)
(***************************************************************************)
Fs == 1..Len(fetches)
Range(s) == {s[i] : i \in 1..Len(s)}
Settled(f) == \A i \in 1..Len(fetches[f].res) : fetches[f].res[i] # Pending
Rejections(f) == {i \in 1..Len(fetches[f].res) : fetches[f].res[i] = Rejected}
Ended(f) == fetches[f].pc \in {"done", "failed"}
\* the stored record of an id
Record(c) == [id |-> c, type |-> Store[c].type]
Stored(l) == {i \in 1..Len(l) : l[i] \in DOMAIN Store}
\* f is the only fetch of the mounted instance that has called setCredentials
OnlyWriter(f) ==
    /\ Live(f)
    /\ fetches[f].setCreds # <<>>
    /\ \A g \in Fs \ {f} : fetches[g].inst = inst => fetches[g].setCreds = <<>>
\* f was superseded by a later run of the effect, or its view was torn down
Superseded(f) == f < Len(fetches) \/ ~Live(f)

\* C1: a fetch in which one lookup failed with a store fault, once all its
\* lookups have settled, has put every record its other lookups resolved
\* into the credentials state (all-settle, not fail-fast).
C1_AllSettle ==
    \A f \in Fs :
        (Ended(f) /\ Settled(f) /\ Rejections(f) # {} /\ Live(f) /\ f = Len(fetches))
        => \A i \in 1..Len(fetches[f].res) :
               (fetches[f].res[i] # Rejected /\ fetches[f].res[i].val # Null)
               => fetches[f].res[i].val \in Range(credentials)

\* C2: a fetch whose lookups all completed without a store fault passes to
\* setCredentials exactly the records of the listed ids that are stored:
\* one per stored entry, none for an absent id, nothing else; and that is
\* the credentials state when no other fetch of the instance wrote it.
C2_ExactForAbsent ==
    \A f \in Fs :
        (fetches[f].pc = "done" /\ fetches[f].list # <<>>)
        => /\ Len(fetches[f].setCreds) = 1
           /\ Len(fetches[f].setCreds[1]) = Cardinality(Stored(fetches[f].list))
           /\ Range(fetches[f].setCreds[1]) =
                  {Record(fetches[f].list[i]) : i \in Stored(fetches[f].list)}
           /\ OnlyWriter(f) => credentials = fetches[f].setCreds[1]
C2_Witness ==
    \E f \in Fs :
        /\ fetches[f].pc = "done"
        /\ fetches[f].list = <<"c1", "c2">>
        /\ credentials = <<[id |-> "c1", type |-> "degree"]>>

\* C3: the step in which a fetch completes for a profile whose credential
\* id list is empty or absent leaves the credentials state empty and emits
\* no notification, whatever was fetched before.
C3_EmptyListEmptyResult ==
    [][\A f \in Fs :
          (fetches[f].pc = "profile" /\ fetches'[f].pc = "done"
              /\ fetches'[f].prof = "found" /\ Live(f))
          => (credentials' = <<>> /\ fetches'[f].toasts = 0)]_vars

\* C4: a fetch for a list of N ids issues N lookups, one per entry, all of
\* them before it waits, and does not continue before all N have settled.
C4_AllIssuedAllAwaited ==
    \A f \in Fs :
        fetches[f].prof = "found"
        => /\ Len(fetches[f].res) = Len(fetches[f].list)
           /\ Ended(f) => Settled(f)

\* C5: a fetch that was superseded by a later fetch, or whose view was torn
\* down, never writes userProfile or credentials and never notifies.
C5_NoOrphanedUpdates ==
    [][\A f \in Fs :
          (Superseded(f) /\ fetches'[f] # fetches[f])
          => /\ userProfile' = userProfile
             /\ credentials' = credentials
             /\ fetches'[f].toasts = fetches[f].toasts]_vars

\* C6: no fetch ever emits more than one notification, and a fetch that
\* went on after k >= 1 of its lookups failed has emitted exactly one.
C6_OneNotification ==
    \A f \in Fs :
        /\ fetches[f].toasts <= 1
        /\ (fetches[f].pc # "lookups" /\ Rejections(f) # {}) => fetches[f].toasts = 1
C6_Witness ==
    \E f \in Fs : Cardinality(Rejections(f)) >= 2 /\ fetches[f].toasts = 1

\* C7: the step in which a fetch ends in its catch block (profile
\* resolution or a lookup threw) changes neither userProfile nor
\* credentials; it emits one notification.
C7_FailurePreservesState ==
    [][\A f \in Fs :
          (fetches[f].pc # "failed" /\ fetches'[f].pc = "failed")
          => /\ userProfile' = userProfile
             /\ credentials' = credentials
             /\ fetches'[f].toasts = fetches[f].toasts + 1]_vars
C7_Witness ==
    \E f \in Fs :
        /\ fetches[f].pc = "failed"
        /\ fetches[f].prof = "transient"
        /\ Live(f)
        /\ userProfile # Null
        /\ credentials # <<>>

\* C8: a run of the effect without an authenticated user invokes no profile
\* resolution, issues no lookup and emits no notification; the resolver is
\* only ever invoked with the uid of a user.
C8_SignedOutIsValid ==
    \A f \in Fs :
        /\ fetches[f].uid = NoUser
           => /\ fetches[f].prof = "none"
              /\ fetches[f].res = <<>>
              /\ fetches[f].toasts = 0
        /\ fetches[f].prof # "none" => fetches[f].uid \in Users
C8_Witness ==
    \E f \in Fs : fetches[f].uid = NoUser /\ fetches[f].pc = "skipped"

\* C9: every submission that reached the success state (step 2) supplied a
\* credential type, a subject name and a document.
Accepted(i) == i < Len(submitted) \/ ~uploading
C9_ValidationGates ==
    \A i \in 1..Len(submitted) :
        Accepted(i)
        => /\ submitted[i].type # ""
           /\ submitted[i].name # ""
           /\ submitted[i].file # NoFile

\* C10: the step in which profile resolution ends with the profile not
\* existing leaves userProfile absent and credentials empty (the default
\* greeting and "No credentials found" are rendered), issues no lookup and
\* emits no notification.
C10_MissingProfileGuest ==
    [][\A f \in Fs :
          (fetches[f].pc = "profile" /\ fetches'[f].prof \in {"null", "notfound"})
          => /\ Live(f) => (userProfile' = Null /\ credentials' = <<>>)
             /\ fetches'[f].res = <<>>
             /\ fetches'[f].toasts = 0]_vars

\* C11: every call of handleSubmit sets uploading to true; while uploading
\* is true the step stays 1 and one timer is pending; the step in which
\* uploading falls sets step to 2, and that step is always reached,
\* whatever the form holds; neither step writes a profile, a credential
\* or a form field.
C11_UploadSucceeds ==
    /\ [][Len(submitted') > Len(submitted)
            => (uploading' /\ step' = 1 /\ timers' = 1 /\ dashVars' = dashVars)]_vars
    /\ [](uploading => (step = 1 /\ timers = 1))
    /\ [][(uploading /\ ~uploading')
            => (step' = 2 /\ timers' = 0 /\ dashVars' = dashVars
                /\ <<typeSel, nameInput, fileInput>>' = <<typeSel, nameInput, fileInput>>)]_vars
    /\ (uploading ~> (~uploading /\ step = 2))
C11_Witness ==
    /\ step = 2
    /\ ~uploading
    /\ timers = 0
    /\ Len(submitted) = 1
    /\ submitted[1].file = NoFile

\* C12: the step of a handleSignOut leaves the context user null and the
\* three session keys absent, whether or not logout throws, and emits
\* exactly one notification: success if logout returned, error if it threw.
C12_SignOutClears ==
    [][Len(signOuts') > Len(signOuts)
        => LET s == signOuts'[Len(signOuts')]
           IN  /\ user' = NoUser
               /\ storage' \cap SessionKeys = {}
               /\ Len(s.toasts) = 1
               /\ s.toasts[1] = "success" <=> s.logout = "returns"]_vars

\* the records of the stored ids of l, in the order of l
RECURSIVE InListOrder(_)
InListOrder(l) ==
    IF l = <<>> THEN <<>>
    ELSE (IF Head(l) \in DOMAIN Store THEN <<Record(Head(l))>> ELSE <<>>)
         \o InListOrder(Tail(l))

\* C13: the sequence a successful fetch passes to setCredentials, and the
\* credentials state it leaves, is the profile's id list with the absent
\* ids removed, in the list's order, an id listed twice giving its record
\* twice, in whatever order the lookups completed.
C13_OrderPreserved ==
    \A f \in Fs :
        (fetches[f].pc = "done" /\ fetches[f].list # <<>>)
        => /\ fetches[f].setCreds = <<InListOrder(fetches[f].list)>>
           /\ OnlyWriter(f) => credentials = InListOrder(fetches[f].list)
C13_Witness ==
    \E f \in Fs :
        /\ fetches[f].pc = "done"
        /\ fetches[f].list = <<"c3", "c1">>
        /\ credentials = <<[id |-> "c3", type |-> "certificate"], [id |-> "c1", type |-> "degree"]>>

Init == DashInit /\ UpInit /\ NavInit

Next ==
    \/ \E f \in 1..Len(fetches) : \E p \in ProfilesOf(fetches[f].uid) : ProfileFound(f, p)
    \/ \E f \in 1..Len(fetches) : ProfileNull(f)
    \/ \E f \in 1..Len(fetches) : \E k \in {"notfound", "transient"} : ProfileReject(f, k)
    \/ \E f \in 1..Len(fetches) : \E i \in 1..MaxLookups : LookupResolve(f, i)
    \/ \E f \in 1..Len(fetches) : \E i \in 1..MaxLookups : LookupReject(f, i)
    \/ \E u \in Users \cup {NoUser} : SetUser(u)
    \/ Unmount
    \/ Mount

Spec == Init /\ [][Next]_vars

NextUpload ==
    \/ \E t \in Types : SelectType(t)
    \/ \E n \in Names : TypeName(n)
    \/ \E file \in Files \cup {NoFile} : HandleFileChange(file)
    \/ \E file \in Files : \E o \in ReadOutcomes : ReaderLoadEnd(file, o)
    \/ HandleSubmit
    \/ TimerFires
    \/ UploadAnother

SpecUpload == Init /\ [][NextUpload]_vars

\* One visit of the dashboard by a user whose profile lists ids of OrderIds.
NextOrder ==
    \/ inst = 0 /\ Mount
    \/ \E f \in 1..Len(fetches) : \E p \in OrderProfilesOf(fetches[f].uid) : ProfileFound(f, p)
    \/ \E f \in 1..Len(fetches) : \E i \in 1..MaxLookups : LookupResolve(f, i)
    \/ \E f \in 1..Len(fetches) : \E i \in 1..MaxLookups : LookupReject(f, i)

SpecOrder == Init /\ [][NextOrder]_vars

NextNavbar ==
    \/ \E u \in Users : \E keys \in SUBSET SessionKeys : SignIn(u, keys)
    \/ ToggleMenu
    \/ \E fromMenu \in BOOLEAN : \E o \in {"returns", "throws"} : HandleSignOut(fromMenu, o)
    \/ Mount
    \/ Unmount

SpecNavbar == Init /\ [][NextNavbar]_vars

\* A pending setTimeout callback is always run by the event loop.
SpecUploadFair == Init /\ [][NextUpload]_vars /\ WF_vars(TimerFires)
====
